---- MODULE Spec2Model ----
(***************************************************************************)
(* Session and knowledge-base lifecycle of INTELLEX AI (src/app.py).       *)
(*                                                                         *)
(* The program keeps its state in st.session_state.  Python lists and the  *)
(* llama_index index are mutable objects held by reference, so the model   *)
(* keeps two heaps: listHeap (message lists) and indexHeap (documents of   *)
(* each VectorStoreIndex).  A chat engine is represented by the address of *)
(* the index it was derived from.  Every user action runs to completion    *)
(* before the next one; only the blocking completion call of an ask is     *)
(* split in two steps (pc = "chat" while the call is in flight).           *)
(***************************************************************************)
EXTENDS Integers, Sequences, FiniteSets, TLC

---------------------------------------------------------------------------
(* Bounds of the model *)

MaxSecond == 2          \* wall-clock seconds 1..MaxSecond are observable
TicksPerSecond == 2     \* sub-second clock readings per second
MaxLog == 3             \* longest chat log
MaxBatch == 2           \* most documents extracted from one upload
MaxIndexDocs == 2       \* most documents held by one index
MaxKey == 3             \* cap on uploader_key
NumDocs == 1            \* distinct documents
NumQueries == 1         \* distinct prompts
NumAnswers == 1         \* distinct completion results

---------------------------------------------------------------------------
(* Values *)

\* Python None, for current_chat_id, index and chat_engine.
None == 0

Docs == 1..NumDocs
Queries == 1..NumQueries
Answers == 1..NumAnswers

\* Readings of datetime.now(), in ticks.
Times == TicksPerSecond..((MaxSecond + 1) * TicksPerSecond - 1)

\* datetime.now().strftime("%Y-%m-%d_%H-%M-%S"): the sub-second part of the
\* reading is dropped, the rest is an order-preserving rendering of the second.
Strftime(t) == t \div TicksPerSecond

SessionIds == {Strftime(t) : t \in Times}

ListAddrs == 1..(Cardinality(SessionIds) + 3)
IndexAddrs == 1..(Cardinality(SessionIds) + 1)

UserMsg(q) == [role |-> "user", content |-> q]
AssistantMsg(a) == [role |-> "assistant", content |-> a]

RECURSIVE SeqsUpTo(_, _)
SeqsUpTo(S, n) ==
    IF n = 0 THEN {<<>>}
    ELSE LET shorter == SeqsUpTo(S, n - 1)
         IN shorter \cup {Append(s, x) : s \in {r \in shorter : Len(r) = n - 1}, x \in S}

\* Results of SimpleDirectoryReader.load_data(): unreadable files are left
\* out, so the batch may be empty.
Batches == SeqsUpTo(Docs, MaxBatch)

Min(S) == CHOOSE x \in S : \A y \in S : x <= y

\* The value of an expression, computed once.
Only(S) == CHOOSE x \in S : TRUE

---------------------------------------------------------------------------
(* State *)

VARIABLES
    chat_histories,   \* st.session_state.chat_histories: id -> record of references
    current_chat_id,  \* st.session_state.current_chat_id
    messages,         \* st.session_state.messages: address of the live list
    chat_engine,      \* st.session_state.chat_engine
    index,            \* st.session_state.index: address of the live index
    uploader_key,     \* st.session_state.uploader_key
    listHeap,         \* contents of every list object
    indexHeap,        \* documents of every index object
    pc,               \* "idle", or "chat" while chat_engine.chat(prompt) runs
    prompt,           \* the prompt of the ask in flight
    last              \* the handler that led to this state and how it ended

vars == <<chat_histories, current_chat_id, messages, chat_engine, index,
          uploader_key, listHeap, indexHeap, pc, prompt, last>>

\* The session state as one value, threaded through the statements of a handler.
State ==
    [h |-> chat_histories, cur |-> current_chat_id, msgs |-> messages,
     eng |-> chat_engine, idx |-> index, key |-> uploader_key,
     lh |-> listHeap, ih |-> indexHeap]

Put(h, k, v) == [x \in DOMAIN h \cup {k} |-> IF x = k THEN v ELSE h[x]]

ListRoots(S) == {S.msgs} \cup {S.h[k].messages : k \in DOMAIN S.h}
IndexRoots(S) ==
    ({S.idx, S.eng} \cup {S.h[k].index : k \in DOMAIN S.h}
                    \cup {S.h[k].chat_engine : k \in DOMAIN S.h}) \ {None}

\* Allocation of a new object: an address no reference leads to.
FreshList(S) == Min(ListAddrs \ ListRoots(S))
FreshIndex(S) == Min(IndexAddrs \ IndexRoots(S))

\* The references to list objects, the live one first, then by session id.
RECURSIVE SortedSeq(_)
SortedSeq(ids) ==
    IF ids = {} THEN <<>> ELSE <<Min(ids)>> \o SortedSeq(ids \ {Min(ids)})

ListRefs(S) ==
    LET ids == SortedSeq(DOMAIN S.h)
    IN <<S.msgs>> \o [i \in 1..Len(ids) |-> S.h[ids[i]].messages]

\* Unreachable objects are collected.  Addresses of list objects carry no
\* meaning of their own (no handler compares them), so after each handler the
\* reachable lists are renamed to their first position in ListRefs.
Collect(S) ==
    LET refs == ListRefs(S)
        first == [i \in 1..Len(refs) |-> Min({j \in 1..i : refs[j] = refs[i]})]
        name == [a \in ListRoots(S) |-> Min({j \in 1..Len(refs) : refs[j] = a})]
        iroots == IndexRoots(S)
    IN [S EXCEPT
           !.msgs = name[S.msgs],
           !.h = [k \in DOMAIN S.h |-> [S.h[k] EXCEPT !.messages = name[@]]],
           !.lh = [a \in ListAddrs |->
                      IF a <= Len(refs) /\ first[a] = a THEN S.lh[refs[a]] ELSE <<>>],
           !.ih = [a \in IndexAddrs |-> IF a \in iroots THEN S.ih[a] ELSE <<>>]]

Commit(S, l) ==
    \E T \in {Collect(R) : R \in {S}} :
       /\ chat_histories' = T.h
       /\ current_chat_id' = T.cur
       /\ messages' = T.msgs
       /\ chat_engine' = T.eng
       /\ index' = T.idx
       /\ uploader_key' = T.key
       /\ listHeap' = T.lh
       /\ indexHeap' = T.ih
       /\ last' = l

---------------------------------------------------------------------------
(* Statements *)

\* list(x): a new list object with the same elements.
CopyList(S, a) == [S EXCEPT !.lh[a] = S.lh[S.msgs]]

\* [] : a new empty list object.
EmptyList(S, a) == [S EXCEPT !.lh[a] = <<>>]

\* Variant: the message is put in front of the list.
AppendMsg_Front(log, m) == <<m>> \o log

\* x.append(m)
AppendMsg(log, m) == Append(log, m)

\* Variant: the record is not written.
SaveRecord_Skip(h, id, rec) == h

\* `chat_histories[current_chat_id] = {...}`
SaveRecord(h, id, rec) == Put(h, id, rec)

save_current_chat(S) ==
    IF S.cur # None
    THEN LET a == FreshList(S)
             T == CopyList(S, a)
         IN [T EXCEPT !.h = SaveRecord(T.h, T.cur,
                 [messages |-> a, chat_engine |-> T.eng, index |-> T.idx])]
    ELSE S

\* Variant: the uploader key is not advanced.
NextUploaderKey_Same(k) == k

\* `st.session_state.uploader_key += 1`
NextUploaderKey(k) == k + 1

\* Variant: the new record is not stored.
StoreNewRecord_Forget(h, id, rec) == h

\* `chat_histories[new_id] = {...}`
StoreNewRecord(h, id, rec) == Put(h, id, rec)

\* Variant: `st.session_state.index = None` is missing.
reset_live_KeepIndex(S, new_id) ==
    LET a == Min(ListAddrs \ ({S.msgs} \cup {S.h[k].messages : k \in DOMAIN S.h}))
    IN [S EXCEPT !.lh[a] = <<>>, !.cur = new_id, !.msgs = a,
                 !.eng = None, !.key = S.key + 1]

\* lines 48-53: the live state is reset under the new id.
reset_live(S, new_id) ==
    LET a == FreshList(S)
    IN [EmptyList(S, a) EXCEPT !.cur = new_id, !.msgs = a,
                               !.eng = None, !.idx = None,
                               !.key = NextUploaderKey(S.key)]

\* line 54: an empty record is stored under the new id.
store_empty(S, new_id) ==
    LET b == FreshList(S)
    IN [EmptyList(S, b) EXCEPT !.h = StoreNewRecord(S.h, new_id,
           [messages |-> b, chat_engine |-> None, index |-> None])]

new_chat(S, t) ==
    Only({store_empty(S2, Strftime(t)) :
            S2 \in {reset_live(S1, Strftime(t)) : S1 \in {save_current_chat(S)}}})

\* Variant: the early return for the active chat is missing.
IsActive_Never(S, chat_id) == FALSE

\* `if chat_id == st.session_state.current_chat_id`
IsActive(S, chat_id) == chat_id = S.cur

\* Variant: a missing record is read as an empty one
\* (chat_histories.get(chat_id, {})) and made active.
switch_to_default(S, chat_id) ==
    IF chat_id \in DOMAIN S.h
    THEN LET chat_data == S.h[chat_id]
         IN [S EXCEPT !.cur = chat_id,
                      !.msgs = chat_data.messages,
                      !.eng = chat_data.chat_engine,
                      !.idx = chat_data.index,
                      !.key = S.key + 1]
    ELSE LET a == Min(ListAddrs \ ({S.msgs} \cup {S.h[k].messages : k \in DOMAIN S.h}))
         IN [S EXCEPT !.cur = chat_id, !.msgs = a, !.lh[a] = <<>>,
                      !.eng = None, !.idx = None, !.key = S.key + 1]

\* lines 63-71, after save_current_chat().
switch_to(S, chat_id) ==
    IF chat_id \in DOMAIN S.h
    THEN LET chat_data == S.h[chat_id]
         IN [S EXCEPT !.cur = chat_id,
                      !.msgs = chat_data.messages,
                      !.eng = chat_data.chat_engine,
                      !.idx = chat_data.index,
                      !.key = NextUploaderKey(S.key)]
    ELSE S

load_chat(S, chat_id) ==
    IF IsActive(S, chat_id) THEN S
    ELSE Only({switch_to(S1, chat_id) : S1 \in {save_current_chat(S)}})

\* Variant: the check for an empty extraction is missing.
NoDocuments_Never(docs) == FALSE

Max(S) == CHOOSE x \in S : \A y \in S : x >= y

RECURSIVE SortedReverse(_)
SortedReverse(ids) ==
    IF ids = {} THEN <<>> ELSE <<Max(ids)>> \o SortedReverse(ids \ {Max(ids)})

\* Variant: reverse=True is missing.
chat_ids_Ascending(h) == SortedSeq(DOMAIN h)

\* `chat_ids = sorted(st.session_state.chat_histories.keys(), reverse=True)`:
\* the ids are zero-padded timestamps, so their string order is that of the
\* seconds they render.
chat_ids(h) == SortedReverse(DOMAIN h)

\* `if not new_documents`
NoDocuments(docs) == docs = <<>>

\* VectorStoreIndex.from_documents(new_documents, ...)
FromDocuments(docs) == docs

\* Variant: the batch replaces the documents of the index.
IndexInsertAll_Replace(content, docs) == docs

\* `for doc in new_documents: index.insert(doc)`
IndexInsertAll(content, docs) == content \o docs

\* index.as_chat_engine(...)
AsChatEngine(i) == i

\* A collaborator may raise: "index" while the index is built or a document
\* is inserted (after k documents of the batch went in), "engine" while the
\* chat engine is derived.
Faults ==
    {[at |-> "none", k |-> 0], [at |-> "engine", k |-> 0]}
        \cup {[at |-> "index", k |-> k] : k \in 0..(MaxBatch - 1)}

derive_chat_engine(S, fault) ==
    IF fault.at = "engine" THEN S
    ELSE [S EXCEPT !.eng = AsChatEngine(S.idx)]

process_documents(S, docs, fault) ==
    IF NoDocuments(docs) THEN S
    ELSE IF S.idx = None
    THEN IF fault.at = "index" THEN S
         ELSE LET a == FreshIndex(S)
              IN derive_chat_engine(
                     [S EXCEPT !.ih[a] = FromDocuments(docs), !.idx = a], fault)
    ELSE IF fault.at = "index"
         THEN [S EXCEPT !.ih[S.idx] = IndexInsertAll(@, SubSeq(docs, 1, fault.k))]
         ELSE derive_chat_engine(
                  [S EXCEPT !.ih[S.idx] = IndexInsertAll(@, docs)], fault)

\* Variant: the check for a chat engine is missing.
EngineReady_Always(S) == TRUE

\* `if st.session_state.chat_engine is None` fails
EngineReady(S) == S.eng # None

\* Variant: the user message is not appended.
append_user_Skip(S, q) == S

\* `st.session_state.messages.append({"role": "user", "content": prompt})`
append_user(S, q) == [S EXCEPT !.lh[S.msgs] = AppendMsg(@, UserMsg(q))]

chat_answered(S, a) ==
    Only({save_current_chat(S1) :
            S1 \in {[S EXCEPT !.lh[S.msgs] = AppendMsg(@, AssistantMsg(a))]}})

---------------------------------------------------------------------------
(* Actions *)

Init ==
    /\ chat_histories = <<>>
    /\ current_chat_id = None
    /\ messages = 1
    /\ chat_engine = None
    /\ index = None
    /\ uploader_key = 0
    /\ listHeap = [a \in ListAddrs |-> <<>>]
    /\ indexHeap = [a \in IndexAddrs |-> <<>>]
    /\ pc = "idle"
    /\ prompt = 0
    /\ last = "init"

\* new_chat() when the clock reads t.  The clock does not run backwards:
\* every earlier reading became a key of chat_histories and keys are never
\* removed, so t is not before the second of any stored id.
NewChatAt(t) ==
    /\ pc = "idle"
    /\ \A id \in DOMAIN chat_histories : Strftime(t) >= id
    /\ Commit(new_chat(State, t), "new_chat")
    /\ UNCHANGED <<pc, prompt>>

\* main(), first run: no chat is active yet, so new_chat() is called.
FirstRun ==
    /\ current_chat_id = None
    /\ \E t \in Times : NewChatAt(t)

\* The "New Chat" button.
NewChat ==
    /\ current_chat_id # None
    /\ uploader_key < MaxKey
    /\ \E t \in Times : NewChatAt(t)

\* load_chat(chat_id).
LoadChatOf(chat_id) ==
    /\ pc = "idle"
    /\ current_chat_id # None
    /\ uploader_key < MaxKey
    /\ Commit(load_chat(State, chat_id),
              IF chat_id = current_chat_id THEN "load_chat_active"
              ELSE IF chat_id \in DOMAIN chat_histories THEN "load_chat"
              ELSE "load_chat_not_found")
    /\ UNCHANGED <<pc, prompt>>

\* A history button, or any other caller of load_chat: every identifier the
\* clock can produce may be passed, stored or not.
LoadChat == \E chat_id \in SessionIds : LoadChatOf(chat_id)

\* The "Process Documents" handler when the reader returns docs and the
\* collaborators behave as fault says.
IngestOf(docs, fault) ==
    /\ pc = "idle"
    /\ current_chat_id # None
    /\ fault.k < Len(docs) \/ (fault.k = 0 /\ fault.at # "index")
    /\ index # None =>
          Len(indexHeap[index])
              + (IF fault.at = "index" THEN fault.k ELSE Len(docs)) <= MaxIndexDocs
    /\ Commit(process_documents(State, docs, fault),
              IF docs = <<>> THEN "ingest_empty"
              ELSE IF fault.at # "none" THEN "ingest_failed"
              ELSE IF index = None THEN "ingest_create"
              ELSE "ingest_merge")
    /\ UNCHANGED <<pc, prompt>>

Ingest == \E docs \in Batches, fault \in Faults : IngestOf(docs, fault)

\* A prompt is submitted in the chat input: the user message is appended and,
\* with a chat engine, the completion call starts; without one the run ends.
AskOf(q) ==
    /\ pc = "idle"
    /\ current_chat_id # None
    /\ Len(listHeap[messages]) + (IF chat_engine # None THEN 2 ELSE 1) <= MaxLog
    /\ \E S \in {append_user(State, q)} :
          IF EngineReady(S)
          THEN /\ Commit(S, "ask")
               /\ pc' = "chat"
               /\ prompt' = q
          ELSE /\ Commit(S, "ask_not_ready")
               /\ pc' = "idle"
               /\ prompt' = 0

Ask == \E q \in Queries : AskOf(q)

\* chat_engine.chat(prompt) returns a: the answer is appended and the chat saved.
ChatReturnOf(a) ==
    /\ pc = "chat"
    /\ Commit(chat_answered(State, a), "chat_return")
    /\ pc' = "idle"
    /\ prompt' = 0

ChatReturn == \E a \in Answers : ChatReturnOf(a)

\* chat_engine.chat(prompt) raises: the run ends where it is.
ChatFail ==
    /\ pc = "chat"
    /\ Commit(State, "chat_failed")
    /\ pc' = "idle"
    /\ prompt' = 0

---------------------------------------------------------------------------
(* Views of the state used by the properties *)

NoFault == [at |-> "none", k |-> 0]

LiveLog == listHeap[messages]
StoredLog(id) == listHeap[chat_histories[id].messages]

\* What a reference to an index or a chat engine leads to.
Contents(heap, ref) == IF ref = None THEN <<>> ELSE heap[ref]

\* The live session as a caller sees it.
LiveView ==
    [log |-> LiveLog, index |-> index, docs |-> Contents(indexHeap, index),
     chat_engine |-> chat_engine]

\* The record stored under id as a caller sees it.
ViewOf(rec, lh, ih) ==
    [log |-> lh[rec.messages], index |-> rec.index,
     docs |-> Contents(ih, rec.index), chat_engine |-> rec.chat_engine]

StoredView(id) == ViewOf(chat_histories[id], listHeap, indexHeap)

\* The same after the step.
StoredViewNext(id) == ViewOf(chat_histories'[id], listHeap', indexHeap')

EmptyView == [log |-> <<>>, index |-> None, docs |-> <<>>, chat_engine |-> None]

\* Everything st.session_state holds.
sessionVars ==
    <<chat_histories, current_chat_id, messages, chat_engine, index,
      uploader_key, listHeap, indexHeap>>

---------------------------------------------------------------------------
(* Properties *)

\* C1: a successful ingest on a session without an index creates a new index
\* holding exactly the batch; on a session with an index it inserts the batch
\* into that same index object, after the documents already there.
C1_CreateOrMerge ==
    [][\A docs \in Batches :
          (docs # <<>> /\ IngestOf(docs, NoFault)) =>
              IF index = None
              THEN /\ index' # None
                   /\ index' \notin IndexRoots(State)
                   /\ indexHeap'[index'] = docs
              ELSE /\ index' = index
                   /\ indexHeap'[index'] = indexHeap[index] \o docs]_vars

C1_Witness ==
    /\ last = "ingest_merge"
    /\ index # None
    /\ Len(indexHeap[index]) >= 2

\* C2: every new_chat yields an identifier that is not yet a key of the store,
\* so the number of stored identifiers grows by one with every session created.
C2_DistinctIds ==
    [][last' = "new_chat" =>
          /\ current_chat_id' \notin DOMAIN chat_histories
          /\ Cardinality(DOMAIN chat_histories')
                 = Cardinality(DOMAIN chat_histories) + 1]_vars

\* C3: an ask without a chat engine starts no completion call and appends no
\* assistant message: the log grows by exactly the user message.
C3_AskNotReady ==
    [][\A q \in Queries :
          (AskOf(q) /\ chat_engine = None) =>
              /\ pc' = "idle"
              /\ LiveLog' = Append(LiveLog, UserMsg(q))]_vars

C3_Witness ==
    /\ last = "ask_not_ready"
    /\ chat_engine = None
    /\ Len(LiveLog) >= 2

\* C4: an ask with a chat engine appends the user message before the
\* completion call begins, the message is the last one of the log while the
\* call runs, and the answer is appended right after it when the call returns.
C4_CommitThenGenerate ==
    /\ [][\A q \in Queries :
             (AskOf(q) /\ chat_engine # None) =>
                 /\ pc' = "chat"
                 /\ LiveLog' = Append(LiveLog, UserMsg(q))]_vars
    /\ [](pc = "chat" => LiveLog # <<>> /\ LiveLog[Len(LiveLog)] = UserMsg(prompt))
    /\ [][\A a \in Answers :
             ChatReturnOf(a) =>
                 /\ pc' = "idle"
                 /\ LiveLog' = Append(LiveLog, AssistantMsg(a))]_vars

C4_Witness ==
    /\ last = "chat_return"
    /\ Len(LiveLog) = 3
    /\ LiveLog[2].role = "user"
    /\ LiveLog[3].role = "assistant"

\* C5: an ingest whose extraction yields no documents changes nothing of the
\* session state.
C5_EmptyIngestNoChange ==
    [][last' = "ingest_empty" => UNCHANGED sessionVars]_vars

C5_Witness ==
    /\ last = "ingest_empty"
    /\ LiveLog # <<>>
    /\ index # None

\* C6: load_chat with an id that is not stored leaves the active id, the live
\* chat log, the live index and its documents, and the live chat engine as
\* they were.
C6_LoadMissingKeepsActive ==
    [][last' = "load_chat_not_found" =>
          /\ current_chat_id' = current_chat_id
          /\ LiveView' = LiveView]_vars

C6_Witness ==
    /\ last = "load_chat_not_found"
    /\ LiveLog # <<>>
    /\ index # None

\* C7: load_chat with the active id changes nothing: no flush, no reload, no
\* new uploader key.
C7_LoadActiveNoOp ==
    [][last' = "load_chat_active" => UNCHANGED sessionVars]_vars

C7_Witness ==
    /\ last = "load_chat_active"
    /\ StoredView(current_chat_id) # LiveView

\* C8: after new_chat the id made from the clock reading is active, the live
\* log is empty, index and chat engine are absent, the store holds an empty
\* record under the id and the uploader key went up by one.
C8_NewChatFresh ==
    [][\A t \in Times :
          NewChatAt(t) =>
              /\ current_chat_id' = Strftime(t)
              /\ LiveView' = EmptyView
              /\ current_chat_id' \in DOMAIN chat_histories'
              /\ StoredViewNext(current_chat_id') = EmptyView
              /\ uploader_key' = uploader_key + 1]_vars

C8_Witness ==
    /\ last = "new_chat"
    /\ \E id \in DOMAIN chat_histories :
          id # current_chat_id /\ StoredView(id) # EmptyView

\* C9: once main() has run, a session is active and it is a key of the store.
C9_OneActive ==
    last # "init" =>
        /\ current_chat_id # None
        /\ current_chat_id \in DOMAIN chat_histories

C9_Witness ==
    /\ last = "load_chat"
    /\ current_chat_id \in DOMAIN chat_histories
    /\ Cardinality(DOMAIN chat_histories) >= 2

\* C10: a session is resumable.  Leaving the active session (new_chat, or
\* load_chat of another stored id) stores its live log, index and chat engine;
\* nothing changes the record of a session that is not active; load_chat makes
\* the stored record the live state.
C10_Resumable ==
    /\ [][(last' \in {"new_chat", "load_chat"} /\ current_chat_id # None) =>
             /\ current_chat_id \in DOMAIN chat_histories'
             /\ StoredViewNext(current_chat_id) = LiveView]_vars
    /\ [][\A id \in DOMAIN chat_histories :
             id # current_chat_id =>
                 /\ id \in DOMAIN chat_histories'
                 /\ StoredViewNext(id) = StoredView(id)]_vars
    /\ [][last' = "load_chat" =>
             \A id \in SessionIds :
                 id = current_chat_id' => LiveView' = StoredView(id)]_vars

\* The index and the chat log bound to a session id: the live ones while the
\* session is active, those of its stored record otherwise.
BoundIndex(h, cur, idx, id) == IF id = cur THEN idx ELSE h[id].index
BoundLog(h, cur, msgs, lh, id) == IF id = cur THEN lh[msgs] ELSE lh[h[id].messages]

IsPrefix(s, t) == Len(s) <= Len(t) /\ SubSeq(t, 1, Len(s)) = s

\* C11: the index bound to a session id appears only by a successful ingest
\* made while the session is active; once there it stays the same index
\* object and keeps every document it held.
C11_KbAppendOnly ==
    [][\A id \in DOMAIN chat_histories :
          /\ id \in DOMAIN chat_histories'
          /\ \A before \in {BoundIndex(chat_histories, current_chat_id, index, id)},
                after \in {BoundIndex(chat_histories', current_chat_id', index', id)} :
                /\ (before = None /\ after # None) =>
                       (last' = "ingest_create" /\ id = current_chat_id)
                /\ before # None =>
                       /\ after = before
                       /\ IsPrefix(indexHeap[before], indexHeap'[after])]_vars

\* C12: the chat log bound to a session id only grows: for every step the log
\* before it is a prefix of the log after it.
C12_LogAppendOnly ==
    [][\A id \in DOMAIN chat_histories :
          /\ id \in DOMAIN chat_histories'
          /\ IsPrefix(BoundLog(chat_histories, current_chat_id, messages, listHeap, id),
                      BoundLog(chat_histories', current_chat_id', messages',
                               listHeap', id))]_vars

\* C13: appends of an ask and the create/merge of an ingest touch the active
\* session only: the stored record of every other session id (messages, index
\* and its documents, chat engine) is the same after the step, also when the
\* live list is the very list object of the active session's stored record.
C13_ActiveSessionOnly ==
    [][last' \in {"ask", "ask_not_ready", "chat_return", "chat_failed",
                  "ingest_create", "ingest_merge", "ingest_failed", "ingest_empty"} =>
          \A id \in DOMAIN chat_histories :
              id # current_chat_id =>
                  /\ id \in DOMAIN chat_histories'
                  /\ StoredViewNext(id) = StoredView(id)]_vars

C13_Witness ==
    /\ last = "ask_not_ready"
    /\ messages = chat_histories[current_chat_id].messages
    /\ \E id \in DOMAIN chat_histories :
          id # current_chat_id /\ StoredView(id) # EmptyView

\* C14: a collaborator failure leaves the state as it was.  A failed ingest
\* leaves the live index, its documents, the chat engine and the chat log as
\* before the handler; a failed completion call changes nothing after the user
\* message that the ask had appended.
C14_FailureLeavesState ==
    /\ [][last' = "ingest_failed" => LiveView' = LiveView]_vars
    /\ [][last' = "chat_failed" =>
             /\ LiveView' = LiveView
             /\ LiveLog # <<>>
             /\ LiveLog[Len(LiveLog)] = UserMsg(prompt)]_vars

\* The handlers that are activity on the active session.
Activity ==
    {"ask", "ask_not_ready", "chat_return", "ingest_create", "ingest_merge"}

C16_EngineIffIndex ==
    /\ [](pc = "idle" =>
             /\ (chat_engine # None) <=> (index # None)
             /\ \A id \in DOMAIN chat_histories :
                    (chat_histories[id].chat_engine # None)
                        <=> (chat_histories[id].index # None))
    /\ [][last' \in {"ingest_create", "ingest_merge"} =>
             /\ index' # None
             /\ chat_engine' = AsChatEngine(index')]_vars

Count(log, role) == Cardinality({i \in 1..Len(log) : log[i].role = role})

WellFormed(log) ==
    /\ \A i \in 1..Len(log) :
          log[i].role = "assistant" => (i > 1 /\ log[i - 1].role = "user")
    /\ Count(log, "assistant") <= Count(log, "user")

\* C17: every chat log, live or stored, is well-formed: it does not begin with
\* an assistant message, every assistant message directly follows a user
\* message, and there are at most as many assistant as user messages.
C17_WellFormedLogs ==
    /\ WellFormed(LiveLog)
    /\ \A id \in DOMAIN chat_histories : WellFormed(StoredLog(id))

C17_Witness ==
    \E id \in DOMAIN chat_histories :
        /\ id # current_chat_id
        /\ Count(StoredLog(id), "assistant") = 1
        /\ Count(StoredLog(id), "user") = 2

\* C18: the record stored under the active id never runs ahead of the live
\* state: its messages are a prefix of the live log, and right after an
\* answered ask its messages, index and chat engine are the live ones.
C18_StoredNeverAhead ==
    /\ [](current_chat_id # None =>
             /\ current_chat_id \in DOMAIN chat_histories
             /\ IsPrefix(StoredLog(current_chat_id), LiveLog))
    /\ [][last' = "chat_return" =>
             \A id \in SessionIds :
                 id = current_chat_id' => StoredViewNext(id) = LiveView']_vars

C18_Witness ==
    /\ last \in {"ask_not_ready", "chat_failed"}
    /\ StoredLog(current_chat_id) # <<>>
    /\ Len(StoredLog(current_chat_id)) < Len(LiveLog)

---------------------------------------------------------------------------
Next == FirstRun \/ NewChat \/ LoadChat \/ Ingest \/ Ask \/ ChatReturn \/ ChatFail

Spec == Init /\ [][Next]_vars

====
